---- MODULE Spec2Model ----
(***************************************************************************)
(* Conway's Game of Life on a clipped terminal grid (src/bin/conway.py):   *)
(* the generation step next_board, the boundary policy die, the random     *)
(* board generator, the BoredomDetector and the frame loop of main.        *)
(*                                                                         *)
(* A board is a function from cells <<x, y>> to a state in 0..2, as the    *)
(* Python dict {(x, y): state}.                                            *)
(***************************************************************************)
EXTENDS Integers, Sequences, FiniteSets, TLC

\* ------------------------------------------------------------------ bounds

\* Terminal sizes << term.width, term.height >> the frame loop is run with: the
\* smallest ones whose nudge board (NUDGING_LOAD_FACTOR) holds a cell.
TermSizes == { << 8, 5 >>, << 10, 4 >> }
\* Frames of the loop that are followed.
MaxFrames == 17

\* Grid of the specification that applies next_board to every board.
AdvWidth == 3
AdvHeight == 3
\* next_board steps taken from each drawn board.
MaxGen == 2

\* Grid and number of steps of the glider runs.
GliderWidth == 7
GliderHeight == 7
MaxGliderGen == 6

\* Largest population fed to the detector when it is driven on its own.
MaxPop == 1
\* The call counter saturates here.
MaxCalls == 58
\* The reset counter saturates here.
MaxResets == 3

\* random_board is called with max_x, max_y in 0..MaxCoord and load_factor in
\* 1..MaxLoad.
MaxCoord == 2
MaxLoad == 3
\* neighbors is called on the points with coordinates in -NeighborRange..NeighborRange.
NeighborRange == 5

\* ------------------------------------------------------- program constants

LOAD_FACTOR == 9
NUDGING_LOAD_FACTOR == LOAD_FACTOR * 3
REPETITIONS == 14
PATTERN_LENGTH == 4

\* Python's None where a point is expected (falsy, member of no board).
None == <<>>
\* Python's None where a cell state is expected (state = None, line 142).
NoState == -1

VARIABLES
    width, height,      \* main: term.width, term.height
    board,              \* main: the board; the argument of the last call
    iteration, num, times,   \* the BoredomDetector's fields
    pc,                 \* position in main's frame loop
    frame,              \* frames begun so far
    is_bored,           \* what the last is_bored_of call returned
    \* ---- history, read only by the properties
    arg_before,         \* next_board's input board when the last call began
    arg_after,          \* the same dict object when that call returned
    gen,                \* next_board calls made so far (driven runs)
    board0,             \* the board a driven run started from
    drawn,              \* the board last passed to draw
    before_nudge,       \* the board just before the last nudge merge
    fresh,              \* the random board merged by the last nudge
    did_reset,          \* whether the last is_bored_of call reset the detector
    pop,                \* len(board) at the last is_bored_of call
    calls,              \* is_bored_of calls so far (saturating)
    resets,             \* resets so far (saturating)
    base,               \* population of the board at the last reset, -1: none yet
    matched,            \* calls since the last reset that saw population base
    matchedAtCall,      \* the same, counted at the last call before its own reset
    sinceTrue,          \* calls since the last true call (saturating), -1: none
    gap,                \* at a true call: calls since the previous true one, 0: none
    runLen, runPop, runTrue, \* the current run of constant population from a reset
    noReset,            \* calls since the last call that reset (saturating)
    call_args,          \* the arguments of a driven random_board or neighbors call
    call_result         \* what that call returned

vars == << width, height, board, iteration, num, times, pc, frame, is_bored,
           arg_before, arg_after, gen, board0, drawn, before_nudge, fresh,
           did_reset, pop, calls, resets, base, matched, matchedAtCall,
           sinceTrue, gap, runLen, runPop, runTrue, noReset,
           call_args, call_result >>

detectorVars == << iteration, num, times, is_bored, did_reset, pop, calls,
                   resets, base, matched, matchedAtCall, sinceTrue, gap,
                   runLen, runPop, runTrue, noReset >>

callVars == << call_args, call_result >>

Min(a, b) == IF a < b THEN a ELSE b

\* ------------------------------------------------------------------ boards

EmptyBoard == [c \in {} |-> 0]

\* dict(((x, y), state) for ...): every cell of cells with the one state.
BoardOf(cells, state) == [c \in cells |-> state]

\* d[key] = value
Put(d, key, value) == (key :> value) @@ d

\* d.update(other): other's entries win.
UpdateKeepOld(d, other) ==
    [c \in DOMAIN d \cup DOMAIN other |-> IF c \in DOMAIN d THEN d[c] ELSE other[c]]
Update(d, other) ==
    [c \in DOMAIN d \cup DOMAIN other |-> IF c \in DOMAIN other THEN other[c] ELSE d[c]]

\* A Python value used as a condition: None and the empty tuple are false.
Truthy(v) == v # None

\* main.die: the point itself inside the grid, None outside.
dieNoClip(p) == p
die(p) ==
    IF 0 <= p[1] /\ p[1] < width /\ 0 <= p[2] /\ p[2] < height THEN p ELSE None

\* neighbors((x, y)): the eight points in the order they are yielded.
neighborsRepeated(p) ==
    << << p[1] + 1, p[2] >>,     << p[1] - 1, p[2] >>,
       << p[1], p[2] + 1 >>,     << p[1], p[2] - 1 >>,
       << p[1] + 1, p[2] + 1 >>, << p[1] + 1, p[2] - 1 >>,
       << p[1] - 1, p[2] + 1 >>, << p[1] - 1, p[2] + 1 >> >>
neighbors(p) ==
    << << p[1] + 1, p[2] >>,     << p[1] - 1, p[2] >>,
       << p[1], p[2] + 1 >>,     << p[1], p[2] - 1 >>,
       << p[1] + 1, p[2] + 1 >>, << p[1] + 1, p[2] - 1 >>,
       << p[1] - 1, p[2] + 1 >>, << p[1] - 1, p[2] - 1 >> >>

\* sum((neigh in board) for neigh in (wrap(n) for n in neighbors(point) if n))
CountLive(point, b) ==
    Cardinality(UNION { { i \in 1..8 : Truthy(ns[i]) /\ die(ns[i]) \in DOMAIN b } :
                        ns \in { neighbors(point) } })

\* Lines 137-142: the state a point gets from its count, NoState for none.
NewStateBirthOnTwo(count, alive) ==
    IF count = 3 THEN (IF alive THEN 0 ELSE 1)
    ELSE IF count = 2 THEN 2
    ELSE NoState
NewStateSwapped(count, alive) ==
    IF count = 3 THEN (IF alive THEN 2 ELSE 1)
    ELSE IF count = 2 /\ alive THEN 0
    ELSE NoState
NewStateNoBirth(count, alive) ==
    IF count = 3 /\ alive THEN 0
    ELSE IF count = 2 /\ alive THEN 2
    ELSE NoState
NewState(count, alive) ==
    IF count = 3 THEN (IF alive THEN 0 ELSE 1)
    ELSE IF count = 2 /\ alive THEN 2
    ELSE NoState

\* One pass of the loop body (lines 135-147) over the state of the call:
\* heap.board is the argument, heap.new_board the dict being assembled and
\* heap.todo the points the for loop has still to visit.
RecalcPointInPlace(heap, point) ==
    LET state == NewState(CountLive(point, heap.board), point \in DOMAIN heap.board)
        wrapped == die(point)
    IN  IF state # NoState /\ Truthy(wrapped)
        THEN [board |-> Put(heap.board, wrapped, state),
              new_board |-> Put(heap.new_board, wrapped, state),
              todo |-> heap.todo \ {point}]
        ELSE [board |-> [c \in DOMAIN heap.board \ {point} |-> heap.board[c]],
              new_board |-> heap.new_board,
              todo |-> heap.todo \ {point}]
RecalcPointCountsNewBoard(heap, point) ==
    LET state == NewState(CountLive(point, heap.new_board), point \in DOMAIN heap.board)
        wrapped == die(point)
    IN  IF state # NoState /\ Truthy(wrapped)
        THEN [board |-> heap.board,
              new_board |-> Put(heap.new_board, wrapped, state),
              todo |-> heap.todo \ {point}]
        ELSE [heap EXCEPT !.todo = heap.todo \ {point}]
RecalcPoint(heap, point) ==
    LET state == NewState(CountLive(point, heap.board), point \in DOMAIN heap.board)
        wrapped == die(point)
    IN  IF state # NoState /\ Truthy(wrapped)
        THEN [board |-> heap.board,
              new_board |-> Put(heap.new_board, wrapped, state),
              todo |-> heap.todo \ {point}]
        ELSE [heap EXCEPT !.todo = heap.todo \ {point}]

\* for point in points_to_recalc: ...
RECURSIVE RecalcLoop(_)
RecalcLoop(heap) ==
    IF heap.todo = {} THEN heap
    ELSE RecalcLoop(RecalcPoint(heap, CHOOSE p \in heap.todo : TRUE))

\* set(board.iterkeys()) | set(chain(*map(neighbors, board)))
PointsToRecalc(b) ==
    DOMAIN b \cup UNION { { ns[i] : i \in 1..8 } : ns \in { neighbors(p) : p \in DOMAIN b } }

\* next_board(board, die): the state of the call when it returns; new_board
\* is the value returned.
next_board(b) ==
    RecalcLoop([board |-> b, new_board |-> EmptyBoard, todo |-> PointsToRecalc(b)])

\* ------------------------------------------------------------ random_board

\* The sets of cells that n draws of (randint(0, max_x), randint(0, max_y))
\* can leave as the keys of the dict: a cell drawn twice collapses.
RECURSIVE Draws(_, _, _)
Draws(n, max_x, max_y) ==
    IF n <= 0 THEN {{}}
    ELSE { S \cup {<< x, y >>} : S \in Draws(n - 1, max_x, max_y),
                                x \in 0..max_x, y \in 0..max_y }

\* random_board(max_x, max_y, load_factor): every board it can return.
random_boardByCells(max_x, max_y, load_factor) ==
    { BoardOf(S, 0) :
        S \in Draws(((max_x + 1) * (max_y + 1)) \div load_factor, max_x, max_y) }
random_boardStable(max_x, max_y, load_factor) ==
    { BoardOf(S, 2) : S \in Draws((max_x * max_y) \div load_factor, max_x, max_y) }
random_board(max_x, max_y, load_factor) ==
    { BoardOf(S, 0) : S \in Draws((max_x * max_y) \div load_factor, max_x, max_y) }

\* main's two calls: random_board(width - 1, height - 1, load_factor).
FreshBoardsFullWidth(load_factor) == random_board(width, height - 1, load_factor)
FreshBoards(load_factor) == random_board(width - 1, height - 1, load_factor)

\* --------------------------------------------------------- BoredomDetector

\* BoredomDetector.__init__: self.iteration.
InitIterationOneShort == REPETITIONS * PATTERN_LENGTH - 1
InitIteration == REPETITIONS * PATTERN_LENGTH + 1

\* randint(-2, 0), line 199
JitterUpToOne == -2..1
JitterFromMinusThree == -3..0
Jitter == -2..0

len(b) == Cardinality(DOMAIN b)

\* The comparison of line 195: self.times > self.REPETITIONS
BoredAtRepetitions(t) == t >= REPETITIONS
BoredLate(t) == t > REPETITIONS + 1
Bored(t) == t > REPETITIONS

\* is_bored_of(self, board) on the detector d = [iteration, num, times], with j
\* the value randint returns if it is called: the detector afterwards, the
\* value returned (result) and whether the branch of line 196 was taken (reset).
is_bored_of_KeepTimes(d, b, j) ==
    LET iteration1 == d.iteration + 1
        times1 == IF len(b) = d.num THEN d.times + 1 ELSE d.times
        bored == Bored(times1)
    IN  IF iteration1 > REPETITIONS * PATTERN_LENGTH \/ bored
        THEN [iteration |-> j, num |-> len(b), times |-> times1,
              result |-> bored, reset |-> TRUE]
        ELSE [iteration |-> iteration1, num |-> d.num, times |-> times1,
              result |-> bored, reset |-> FALSE]
is_bored_of_KeepNum(d, b, j) ==
    LET iteration1 == d.iteration + 1
        times1 == IF len(b) = d.num THEN d.times + 1 ELSE d.times
        bored == Bored(times1)
    IN  IF iteration1 > REPETITIONS * PATTERN_LENGTH \/ bored
        THEN [iteration |-> j, num |-> d.num, times |-> 0,
              result |-> bored, reset |-> TRUE]
        ELSE [iteration |-> iteration1, num |-> d.num, times |-> times1,
              result |-> bored, reset |-> FALSE]
is_bored_of_ConsecutiveOnly(d, b, j) ==
    LET iteration1 == d.iteration + 1
        times1 == IF len(b) = d.num THEN d.times + 1 ELSE 0
        bored == Bored(times1)
    IN  IF iteration1 > REPETITIONS * PATTERN_LENGTH \/ bored
        THEN [iteration |-> j, num |-> len(b), times |-> 0,
              result |-> bored, reset |-> TRUE]
        ELSE [iteration |-> iteration1, num |-> d.num, times |-> times1,
              result |-> bored, reset |-> FALSE]
is_bored_of(d, b, j) ==
    LET iteration1 == d.iteration + 1
        times1 == IF len(b) = d.num THEN d.times + 1 ELSE d.times
        bored == Bored(times1)
    IN  IF iteration1 > REPETITIONS * PATTERN_LENGTH \/ bored
        THEN [iteration |-> j, num |-> len(b), times |-> 0,
              result |-> bored, reset |-> TRUE]
        ELSE [iteration |-> iteration1, num |-> d.num, times |-> times1,
              result |-> bored, reset |-> FALSE]

\* One is_bored_of call on board b, with the history of the call.
DetectorStep(b, j) ==
    LET r == is_bored_of([iteration |-> iteration, num |-> num, times |-> times], b, j)
        n == len(b)
        m1 == IF n = base THEN Min(matched + 1, MaxCalls) ELSE matched
        continuing == runLen > 0 /\ n = runPop /\ ~(r.reset /\ ~r.result)
    IN  /\ iteration' = r.iteration
        /\ num' = r.num
        /\ times' = r.times
        /\ is_bored' = r.result
        /\ did_reset' = r.reset
        /\ pop' = n
        /\ calls' = Min(calls + 1, MaxCalls)
        /\ resets' = IF r.reset THEN Min(resets + 1, MaxResets) ELSE resets
        /\ matchedAtCall' = m1
        /\ matched' = IF r.reset THEN 0 ELSE m1
        /\ base' = IF r.reset THEN n ELSE base
        /\ gap' = IF r.result /\ sinceTrue # -1 THEN sinceTrue + 1 ELSE 0
        /\ sinceTrue' = IF r.result THEN 0
                        ELSE IF sinceTrue = -1 THEN -1
                        ELSE Min(sinceTrue + 1, REPETITIONS + 2)
        /\ runLen' = IF continuing THEN Min(runLen + 1, REPETITIONS + 2)
                     ELSE IF r.reset THEN 1 ELSE 0
        /\ runPop' = IF continuing THEN runPop ELSE IF r.reset THEN n ELSE 0
        /\ runTrue' = IF continuing THEN (runTrue \/ r.result)
                      ELSE (r.reset /\ r.result)
        /\ noReset' = IF r.reset THEN 0 ELSE Min(noReset + 1, MaxCalls + 1)

\* The state main starts the loop in, but for the board and the grid.
InitRest ==
    /\ iteration = InitIteration
    /\ num = 0
    /\ times = 0
    /\ is_bored = FALSE
    /\ arg_before = EmptyBoard
    /\ arg_after = EmptyBoard
    /\ gen = 0
    /\ drawn = EmptyBoard
    /\ before_nudge = EmptyBoard
    /\ fresh = EmptyBoard
    /\ did_reset = FALSE
    /\ pop = 0
    /\ calls = 0
    /\ resets = 0
    /\ base = -1
    /\ matched = 0
    /\ matchedAtCall = 0
    /\ sinceTrue = -1
    /\ gap = 0
    /\ runLen = 0
    /\ runPop = 0
    /\ runTrue = FALSE
    /\ noReset = 0
    /\ call_args = << >>
    /\ call_result = << >>

\* ------------------------------------------------------ main's frame loop

\* Lines 38-43: the terminal's size, the first random board, a new detector.
Init ==
    /\ \E size \in TermSizes : width = size[1] /\ height = size[2]
    /\ board \in FreshBoards(LOAD_FACTOR)
    /\ board0 = EmptyBoard
    /\ pc = "advance"
    /\ frame = 0
    /\ InitRest

\* The call board = next_board(board, die) with its history.
NextBoardCall ==
    \E heap \in { next_board(board) } :
        /\ arg_before' = board
        /\ arg_after' = heap.board
        /\ board' = heap.new_board

\* Line 49
Advance ==
    /\ pc = "advance"
    /\ frame < MaxFrames
    /\ frame' = frame + 1
    /\ NextBoardCall
    /\ pc' = "draw"
    /\ UNCHANGED callVars
    /\ UNCHANGED << width, height, gen, board0, drawn, before_nudge, fresh >>
    /\ UNCHANGED detectorVars

\* Line 50
DrawBeforeAdvance ==
    /\ pc = "draw"
    /\ drawn' = arg_before
    /\ pc' = "detect"
    /\ UNCHANGED callVars
    /\ UNCHANGED << width, height, frame, board, arg_before, arg_after, gen, board0,
                    before_nudge, fresh >>
    /\ UNCHANGED detectorVars
Draw ==
    /\ pc = "draw"
    /\ drawn' = board
    /\ pc' = "detect"
    /\ UNCHANGED callVars
    /\ UNCHANGED << width, height, frame, board, arg_before, arg_after, gen, board0,
                    before_nudge, fresh >>
    /\ UNCHANGED detectorVars

\* Line 53: the condition of the if
Detect ==
    /\ pc = "detect"
    /\ \E j \in Jitter : DetectorStep(board, j)
    /\ pc' = IF is_bored' THEN "nudge" ELSE "pace"
    /\ UNCHANGED callVars
    /\ UNCHANGED << width, height, frame, board, arg_before, arg_after, gen, board0,
                    drawn, before_nudge, fresh >>

\* Lines 54-56
Nudge ==
    /\ pc = "nudge"
    /\ \E rb \in FreshBoards(NUDGING_LOAD_FACTOR) :
          /\ fresh' = rb
          /\ board' = Update(board, rb)
    /\ before_nudge' = board
    /\ pc' = "pace"
    /\ UNCHANGED callVars
    /\ UNCHANGED << width, height, frame, arg_before, arg_after, gen, board0, drawn >>
    /\ UNCHANGED detectorVars

\* Lines 58-60: flush, sleep_until, clear; none touches the board.
EndFrame ==
    /\ pc = "pace"
    /\ pc' = "advance"
    /\ UNCHANGED callVars
    /\ UNCHANGED << width, height, frame, board, arg_before, arg_after, gen, board0,
                    drawn, before_nudge, fresh >>
    /\ UNCHANGED detectorVars

Next == Advance \/ Draw \/ Detect \/ Nudge \/ EndFrame

Spec == Init /\ [][Next]_vars

\* ------------------------------------------------- next_board on its own

\* What a driven call leaves alone.
DrivenFrame ==
    /\ UNCHANGED callVars
    /\ UNCHANGED << width, height, pc, frame, board0, drawn, before_nudge, fresh >>
    /\ UNCHANGED detectorVars

AllCells(w, h) == (0..(w - 1)) \X (0..(h - 1))

\* Every board of a small grid, as random_board builds them (state 0); the
\* boards the calls return are fed back, so states 1 and 2 are inputs too.
InitAdvance ==
    /\ width = AdvWidth
    /\ height = AdvHeight
    /\ board \in { BoardOf(S, 0) : S \in SUBSET AllCells(AdvWidth, AdvHeight) }
    /\ board0 = EmptyBoard
    /\ pc = "next_board"
    /\ frame = 0
    /\ InitRest

CallNextBoard ==
    /\ pc = "next_board"
    /\ gen < MaxGen
    /\ gen' = gen + 1
    /\ NextBoardCall
    /\ DrivenFrame

NextAdvance == CallNextBoard

SpecAdvance == InitAdvance /\ [][NextAdvance]_vars

\* The glider that travels towards larger x and y, its box's corner at (ox, oy).
Glider(ox, oy) ==
    BoardOf({ << ox + 1, oy >>, << ox + 2, oy + 1 >>,
              << ox, oy + 2 >>, << ox + 1, oy + 2 >>, << ox + 2, oy + 2 >> }, 0)

InitGlider ==
    /\ width = GliderWidth
    /\ height = GliderHeight
    /\ \E ox \in 0..(GliderWidth - 3), oy \in 0..(GliderHeight - 3) :
          board = Glider(ox, oy)
    /\ board0 = board
    /\ pc = "glider"
    /\ frame = 0
    /\ InitRest

GliderStep ==
    /\ pc = "glider"
    /\ gen < MaxGliderGen
    /\ gen' = gen + 1
    /\ NextBoardCall
    /\ DrivenFrame

NextGlider == GliderStep

SpecGlider == InitGlider /\ [][NextGlider]_vars

\* --------------------------------------------- BoredomDetector on its own

\* A board of n cells in one row.
Row(n) == BoardOf({ << i, 0 >> : i \in 0..(n - 1) }, 0)

InitDetector ==
    /\ width = MaxPop
    /\ height = 1
    /\ board = EmptyBoard
    /\ board0 = EmptyBoard
    /\ pc = "is_bored_of"
    /\ frame = 0
    /\ InitRest

\* is_bored_of called with a board of any population up to MaxPop.
CallIsBoredOf ==
    /\ pc = "is_bored_of"
    /\ \E n \in 0..MaxPop, j \in Jitter :
          /\ board' = Row(n)
          /\ DetectorStep(Row(n), j)
    /\ UNCHANGED callVars
    /\ UNCHANGED << width, height, pc, frame, arg_before, arg_after, gen, board0,
                    drawn, before_nudge, fresh >>

NextDetector == CallIsBoredOf

SpecDetector == InitDetector /\ [][NextDetector]_vars

InitIncreasing ==
    /\ width = 2 * MaxCalls
    /\ height = 1
    /\ board = EmptyBoard
    /\ board0 = EmptyBoard
    /\ pc = "increasing"
    /\ frame = 0
    /\ InitRest

\* is_bored_of called with a population larger than in the call before.
CallIncreasing ==
    /\ pc = "increasing"
    /\ calls < MaxCalls
    /\ \E n \in (IF calls = 0 THEN {0, 1} ELSE {pop + 1, pop + 2}), j \in Jitter :
          /\ board' = Row(n)
          /\ DetectorStep(Row(n), j)
    /\ UNCHANGED callVars
    /\ UNCHANGED << width, height, pc, frame, arg_before, arg_after, gen, board0,
                    drawn, before_nudge, fresh >>

NextIncreasing == CallIncreasing

SpecIncreasing == InitIncreasing /\ [][NextIncreasing]_vars

\* ---------------------------------- random_board and neighbors on their own

\* What a driven random_board or neighbors call leaves alone.
PureCallFrame ==
    /\ UNCHANGED << width, height, board, frame, arg_before, arg_after, gen, board0,
                    drawn, before_nudge, fresh, call_args >>
    /\ UNCHANGED detectorVars

\* The arguments << max_x, max_y, load_factor >> of the call; the grid is the
\* one main would have for them (max_x = width - 1, max_y = height - 1).
InitRandom ==
    /\ call_args \in (0..MaxCoord) \X (0..MaxCoord) \X (1..MaxLoad)
    /\ width = call_args[1] + 1
    /\ height = call_args[2] + 1
    /\ board = EmptyBoard
    /\ board0 = EmptyBoard
    /\ pc = "random_board"
    /\ frame = 0
    /\ iteration = InitIteration
    /\ num = 0
    /\ times = 0
    /\ is_bored = FALSE
    /\ arg_before = EmptyBoard
    /\ arg_after = EmptyBoard
    /\ gen = 0
    /\ drawn = EmptyBoard
    /\ before_nudge = EmptyBoard
    /\ fresh = EmptyBoard
    /\ did_reset = FALSE
    /\ pop = 0
    /\ calls = 0
    /\ resets = 0
    /\ base = -1
    /\ matched = 0
    /\ matchedAtCall = 0
    /\ sinceTrue = -1
    /\ gap = 0
    /\ runLen = 0
    /\ runPop = 0
    /\ runTrue = FALSE
    /\ noReset = 0
    /\ call_result = << >>

CallRandomBoard ==
    /\ pc = "random_board"
    /\ \E rb \in random_board(call_args[1], call_args[2], call_args[3]) :
          call_result' = rb
    /\ pc' = "returned"
    /\ PureCallFrame

NextRandom == CallRandomBoard

SpecRandom == InitRandom /\ [][NextRandom]_vars

\* The point << x, y >> neighbors is called on, inside the grid or not.
InitNeighbors ==
    /\ call_args \in ((-NeighborRange)..NeighborRange) \X ((-NeighborRange)..NeighborRange)
    /\ width = NeighborRange
    /\ height = NeighborRange
    /\ board = EmptyBoard
    /\ board0 = EmptyBoard
    /\ pc = "neighbors"
    /\ frame = 0
    /\ iteration = InitIteration
    /\ num = 0
    /\ times = 0
    /\ is_bored = FALSE
    /\ arg_before = EmptyBoard
    /\ arg_after = EmptyBoard
    /\ gen = 0
    /\ drawn = EmptyBoard
    /\ before_nudge = EmptyBoard
    /\ fresh = EmptyBoard
    /\ did_reset = FALSE
    /\ pop = 0
    /\ calls = 0
    /\ resets = 0
    /\ base = -1
    /\ matched = 0
    /\ matchedAtCall = 0
    /\ sinceTrue = -1
    /\ gap = 0
    /\ runLen = 0
    /\ runPop = 0
    /\ runTrue = FALSE
    /\ noReset = 0
    /\ call_result = << >>

\* list(neighbors(point))
CallNeighbors ==
    /\ pc = "neighbors"
    /\ call_result' = neighbors(call_args)
    /\ pc' = "yielded"
    /\ PureCallFrame

NextNeighbors == CallNeighbors

SpecNeighbors == InitNeighbors /\ [][NextNeighbors]_vars

\* ------------------------------------------------------------ properties

Abs(a) == IF a < 0 THEN -a ELSE a

\* q is one of the eight cells around p.
Adjacent(p, q) == p # q /\ Abs(p[1] - q[1]) <= 1 /\ Abs(p[2] - q[2]) <= 1

\* The live cells of board b around p.
LiveNeighbours(p, b) == Cardinality({ q \in DOMAIN b : Adjacent(p, q) })

InBounds(p) == 0 <= p[1] /\ p[1] < width /\ 0 <= p[2] /\ p[2] < height

\* The grid with the ring of cells just outside it.
CellsWithRing == ((-1)..width) \X ((-1)..height)

\* C1: after one next_board step on a board of in-bounds cells, a live cell
\* with exactly 3 live neighbours is present with state 0 (Survived), one with
\* exactly 2 is present with state 2 (Stable), one with any other number is
\* absent; a board of a single live cell advances to the empty board.
C1_SurvivalStates ==
    gen >= 1 =>
        /\ \A p \in DOMAIN arg_before :
              LET n == LiveNeighbours(p, arg_before)
              IN  /\ n = 3 => (p \in DOMAIN board /\ board[p] = 0)
                  /\ n = 2 => (p \in DOMAIN board /\ board[p] = 2)
                  /\ n \notin {2, 3} => p \notin DOMAIN board
        /\ Cardinality(DOMAIN arg_before) = 1 => board = EmptyBoard

\* A call where one live cell had 3 neighbours, one 2 and one more than 3.
C1_Witness ==
    /\ gen >= 1
    /\ \E p, q, r \in DOMAIN arg_before :
          /\ LiveNeighbours(p, arg_before) = 3 /\ p \in DOMAIN board /\ board[p] = 0
          /\ LiveNeighbours(q, arg_before) = 2 /\ q \in DOMAIN board /\ board[q] = 2
          /\ LiveNeighbours(r, arg_before) >= 4 /\ r \notin DOMAIN board

\* C2 as stated: any cell that is not live and has exactly 3 live neighbours,
\* the cells just outside the grid included, is in the returned board with
\* state 1 (Born).
C2_BirthAnywhere ==
    gen >= 1 =>
        \A p \in CellsWithRing \ DOMAIN arg_before :
            LiveNeighbours(p, arg_before) = 3 => (p \in DOMAIN board /\ board[p] = 1)

\* C2, amended: any cell inside the grid that is not live and has exactly 3
\* live neighbours is in the returned board with state 1 (Born).
C2_BirthInBounds ==
    gen >= 1 =>
        \A p \in AllCells(width, height) \ DOMAIN arg_before :
            LiveNeighbours(p, arg_before) = 3 => (p \in DOMAIN board /\ board[p] = 1)

\* A call that gave birth to a cell inside the grid.
C2_Witness ==
    /\ gen >= 1
    /\ \E p \in AllCells(width, height) \ DOMAIN arg_before :
          LiveNeighbours(p, arg_before) = 3 /\ p \in DOMAIN board /\ board[p] = 1

\* C3: every key of the board next_board returns lies inside the grid, and it
\* is there by its own neighbours in the grid (2 or 3 of them), not as a cell
\* carried over from beyond the opposite edge.
C3_OutputClipped ==
    gen >= 1 =>
        \A p \in DOMAIN board :
            /\ InBounds(p)
            /\ LiveNeighbours(p, arg_before) \in {2, 3}

\* A call on a board with a live cell at (0, y) whose outside neighbour
\* (-1, y) had the 3 live neighbours of a birth.
C3_Witness ==
    /\ gen >= 1
    /\ \E y \in 0..(height - 1) :
          /\ << 0, y >> \in DOMAIN arg_before
          /\ LiveNeighbours(<< -1, y >>, arg_before) = 3

\* C4: in every state of the frame loop every key of the board lies inside
\* the grid.
C4_BoardInBounds == \A p \in DOMAIN board : InBounds(p)

\* The state after a nudge merged a cell that was not live before it.
C4_Witness ==
    /\ pc = "pace"
    /\ is_bored
    /\ DOMAIN fresh # {}
    /\ DOMAIN board # DOMAIN before_nudge

\* The glider and a cell's width around the four generations are in the grid.
FarFromEdges(b) ==
    \A c \in DOMAIN b :
        /\ 1 <= c[1] /\ c[1] + 2 <= width - 1
        /\ 1 <= c[2] /\ c[2] + 2 <= height - 1

Translate(cells, dx, dy) == { << c[1] + dx, c[2] + dy >> : c \in cells }

\* C5: the glider placed far from the edges is, after 4 next_board steps, the
\* same set of live cells translated by (1, 1).
C5_GliderTranslates ==
    (gen = 4 /\ FarFromEdges(board0)) =>
        DOMAIN board = Translate(DOMAIN board0, 1, 1)

C5_Witness ==
    /\ gen = 4
    /\ FarFromEdges(board0)
    /\ Cardinality(DOMAIN board) = 5
    /\ DOMAIN board = Translate(DOMAIN board0, 1, 1)

\* C6: when next_board returns, its input board holds the keys and states it
\* held when the call began, and the cells of the returned board are those the
\* rule selects by the neighbour counts in that input board.
C6_InputUntouched ==
    gen >= 1 =>
        /\ arg_after = arg_before
        /\ \A p \in AllCells(width, height) :
              p \in DOMAIN board <=>
                  \/ LiveNeighbours(p, arg_before) = 3
                  \/ LiveNeighbours(p, arg_before) = 2 /\ p \in DOMAIN arg_before

\* A call that returned a board with other cells than its input's.
C6_Witness ==
    /\ gen >= 1
    /\ arg_after = arg_before
    /\ DOMAIN board # {}
    /\ DOMAIN board # DOMAIN arg_before

\* C7: a call returns true only if at least REPETITIONS + 1 calls since the
\* last reset, this one included, saw the population recorded at that reset;
\* and two calls that return true are at least REPETITIONS + 1 calls apart.
C7_TrueOnlyAfterMatches ==
    is_bored =>
        /\ matchedAtCall >= REPETITIONS + 1
        /\ gap # 0 => gap >= REPETITIONS + 1

\* A true call exactly REPETITIONS + 1 calls after the previous true call.
C7_Witness ==
    /\ is_bored
    /\ matchedAtCall = REPETITIONS + 1
    /\ gap = REPETITIONS + 1

\* C8: REPETITIONS + 2 consecutive calls with one population, the first of
\* which reset the detector and none of the others a periodic reset, include a
\* call that returned true.
C8_ConstantPopulationFires == runLen >= REPETITIONS + 2 => runTrue

\* The last of such calls, the first to return true.
C8_Witness ==
    /\ runLen = REPETITIONS + 2
    /\ runTrue
    /\ is_bored
    /\ calls = REPETITIONS + 2

\* The number of calls of C9.
IncreasingCalls == REPETITIONS * PATTERN_LENGTH + 1

\* C9: with a population that grows at every call, each of the first 57 calls
\* of a new detector ends with exactly one reset made so far, whatever the
\* jitter.
C9_OneResetIn57 == (1 <= calls /\ calls <= IncreasingCalls) => resets = 1

C9_Witness == calls = IncreasingCalls /\ resets = 1 /\ iteration = REPETITIONS * PATTERN_LENGTH

\* C10: the first call on a new detector resets it, whatever the board: it
\* leaves num at the board's population and times at 0 and returns false.
C10_FirstCallResets ==
    calls = 1 =>
        /\ did_reset
        /\ num = pop
        /\ times = 0
        /\ iteration \in -2..0
        /\ ~is_bored

\* The first call, made with the empty board.
C10_WitnessEmpty == calls = 1 /\ pop = 0 /\ board = EmptyBoard /\ did_reset


\* The live cells of the board a driven call returned.
ResultCells == DOMAIN call_result

\* The number of draws random_board makes for the call's arguments.
DrawCount == (call_args[1] * call_args[2]) \div call_args[3]

\* C11: every key of a board returned by random_board(max_x, max_y,
\* load_factor) lies in [0, max_x] x [0, max_y], and the board holds at most
\* floor(max_x * max_y / load_factor) cells.
C11_RandomBoardInRange ==
    pc = "returned" =>
        /\ \A p \in ResultCells :
              /\ 0 <= p[1] /\ p[1] <= call_args[1]
              /\ 0 <= p[2] /\ p[2] <= call_args[2]
        /\ Cardinality(ResultCells) <= DrawCount

\* Two draws hit the same cell and another hits the inclusive corner.
C11_Witness ==
    /\ pc = "returned"
    /\ Cardinality(ResultCells) < DrawCount
    /\ << call_args[1], call_args[2] >> \in ResultCells

\* C12 as stated: every cell of a random board carries the state next_board
\* gives a live cell that survives with exactly 2 live neighbours.
C12_RandomStateStable ==
    pc = "returned" => \A p \in ResultCells : call_result[p] = NewState(2, TRUE)

\* C12: every cell of a random board carries state 0, the state next_board
\* gives a live cell that survives with exactly 3 live neighbours.
C12_RandomStateSurvived ==
    pc = "returned" =>
        \A p \in ResultCells : call_result[p] = 0 /\ call_result[p] = NewState(3, TRUE)

C12_Witness ==
    /\ pc = "returned"
    /\ Cardinality(ResultCells) >= 2

\* C13: neighbors(point) yields exactly 8 pairwise distinct coordinates, the
\* points (x + dx, y + dy) with dx, dy in {-1, 0, 1} other than the point
\* itself, with no bounds check.
C13_EightNeighbours ==
    pc = "yielded" =>
        /\ Len(call_result) = 8
        /\ \A i, j \in 1..Len(call_result) : i # j => call_result[i] # call_result[j]
        /\ { call_result[i] : i \in 1..Len(call_result) }
             = { << call_args[1] + dx, call_args[2] + dy >> : dx, dy \in -1..1 }
                 \ { call_args }

\* A corner point of the grid: three of the yielded coordinates are negative.
C13_Witness ==
    /\ pc = "yielded"
    /\ call_args = << 0, 0 >>
    /\ \E i \in 1..Len(call_result) : call_result[i] = << -1, -1 >>


\* C14 as stated: no more than REPETITIONS * PATTERN_LENGTH = 56 consecutive
\* is_bored_of calls pass without a reset.
C14_ResetEvery56 == noReset <= REPETITIONS * PATTERN_LENGTH

\* C14: no more than 58 consecutive is_bored_of calls pass without a reset:
\* the 56 of REPETITIONS * PATTERN_LENGTH and up to 2 more that a negative
\* jitter adds.
C14_ResetEvery58 == noReset <= REPETITIONS * PATTERN_LENGTH + 2

\* 58 calls in a row without a reset, after a reset that drew -2.
C14_Witness ==
    /\ noReset = REPETITIONS * PATTERN_LENGTH + 2
    /\ iteration = REPETITIONS * PATTERN_LENGTH
    /\ resets >= 1

\* The state lines 137-142 give a candidate point of board b.
AssignedState(p, b) == NewState(CountLive(p, b), p \in DOMAIN b)

\* The candidate points of board b that are assigned a state.
Assigned(b) == { p \in PointsToRecalc(b) : AssignedState(p, b) # NoState }

\* C15 as stated: for a board of in-bounds cells, a candidate point that is
\* assigned a state is never out of range, so the final wrap(point) drops no
\* cell: every such point is in the returned board.
C15_NoCellDropped ==
    gen >= 1 =>
        \A p \in Assigned(arg_before) : InBounds(p) /\ p \in DOMAIN board

\* C15: for a board of in-bounds cells, a candidate point that is assigned a
\* state and lies inside the grid is in the returned board with that state;
\* one that lies outside the grid is a dead point given state 1 (Born), and
\* the final wrap(point) drops it.
C15_OnlyOutsideBirthsDropped ==
    gen >= 1 =>
        \A p \in PointsToRecalc(arg_before) :
            LET state == AssignedState(p, arg_before)
            IN  state # NoState =>
                    IF InBounds(p)
                    THEN p \in DOMAIN board /\ board[p] = state
                    ELSE /\ p \notin DOMAIN arg_before
                         /\ state = 1
                         /\ p \notin DOMAIN board

\* A call that assigned a state to a point outside the grid.
C15_Witness ==
    /\ gen >= 1
    /\ \E p \in Assigned(arg_before) : ~InBounds(p) /\ AssignedState(p, arg_before) = 1


\* C16 as stated: the board is rendered after the optional merge, so at the
\* end of a frame the board drawn in it is the board with the cells merged in
\* that frame.
C16_DrawnAfterMerge ==
    pc = "pace" => (drawn = board /\ (is_bored => DOMAIN fresh \subseteq DOMAIN drawn))

\* C16: within a frame the board is advanced, then rendered, then checked by
\* the detector, which does not modify it, and then the optional merge is
\* applied: when the detector is called and when the merge is made the advanced
\* board is already drawn, and at the end of the frame the board drawn is the
\* advanced board as it was before any merge of that frame.
C16_DrawnBeforeDetect ==
    /\ pc \in {"detect", "nudge"} => drawn = board
    /\ pc = "pace" => drawn = (IF is_bored THEN before_nudge ELSE board)

\* A frame whose merge added a cell that the frame's drawing does not show.
C16_Witness ==
    /\ pc = "pace"
    /\ is_bored
    /\ \E c \in DOMAIN fresh : c \notin DOMAIN drawn /\ c \in DOMAIN board


\* C17: an is_bored_of call resets the detector exactly when the incremented
\* iteration exceeds 56 or the call returns true; a reset sets iteration to a
\* value in {-2, -1, 0}, num to the population of the call's board and times
\* to 0; a call that does not reset leaves num unchanged.
C17_ResetExactlyWhen ==
    [][ /\ did_reset' <=> (iteration + 1 > REPETITIONS * PATTERN_LENGTH \/ is_bored')
        /\ did_reset' => (iteration' \in -2..0 /\ num' = len(board') /\ times' = 0)
        /\ ~did_reset' => (num' = num /\ iteration' = iteration + 1) ]_vars

\* A reset made by a call that returned true before the counter ran out, on a
\* board whose population the detector had recorded.
C17_Witness ==
    /\ did_reset
    /\ is_bored
    /\ noReset = 0
    /\ iteration \in -2..0
    /\ num = len(board)
    /\ times = 0
    /\ resets >= 2

\* C18: a call that does not reset never lowers times: it leaves times
\* unchanged when the board's population differs from num and raises it by
\* one when they are equal.
C18_StreakNeverDecreases ==
    [][ ~did_reset' =>
          /\ times' >= times
          /\ len(board') # num => times' = times
          /\ len(board') = num => times' = times + 1 ]_vars

\* A call with another population than the recorded one, after which the
\* streak built by earlier matching calls still stands.
C18_Witness ==
    /\ ~did_reset
    /\ len(board) # num
    /\ times = REPETITIONS
    /\ noReset > REPETITIONS

\* C19: after every is_bored_of call -2 <= iteration <= 56 and
\* 0 <= times <= REPETITIONS.
C19_DetectorRanges ==
    calls >= 1 =>
        /\ -2 <= iteration /\ iteration <= REPETITIONS * PATTERN_LENGTH
        /\ 0 <= times /\ times <= REPETITIONS

\* Both upper ends at once: the last call before a periodic reset, with the
\* streak one short of firing.
C19_Witness ==
    /\ calls >= 1
    /\ iteration = REPETITIONS * PATTERN_LENGTH
    /\ times = REPETITIONS

\* C20: at the end of a frame whose detector call returned true, every cell
\* live before the merge is live, the population has not decreased, every cell
\* of the random board has state 0, and the detector's num is the population
\* before the merge.
C20_NudgeOnlyAdds ==
    (pc = "pace" /\ is_bored) =>
        /\ DOMAIN before_nudge \subseteq DOMAIN board
        /\ len(board) >= len(before_nudge)
        /\ \A c \in DOMAIN fresh : c \in DOMAIN board /\ board[c] = 0
        /\ \A c \in DOMAIN before_nudge \ DOMAIN fresh : board[c] = before_nudge[c]
        /\ num = len(before_nudge)

\* A merge whose random cell fell on a live cell of another state, next to
\* cells that stayed.
C20_Witness ==
    /\ pc = "pace"
    /\ is_bored
    /\ \E c \in DOMAIN fresh :
          c \in DOMAIN before_nudge /\ before_nudge[c] # 0 /\ board[c] = 0
    /\ len(before_nudge) >= 2

====
